---- MODULE Spec2Model ----
(***************************************************************************)
(* The two publish drivers of the Step repository:                         *)
(*   StepRepl/publish.py      argument dispatch, do_build,                 *)
(*                            open_output_folder, create_app_bundle        *)
(*   AvaloniaRepl/publish.py  unconditional loop over its platform list    *)
(*                                                                         *)
(* A run is one execution of one script.  Strings are Python strings,      *)
(* a command line is the f-string split at its blanks, the file system is  *)
(* a function from path to content, and everything the script does to the  *)
(* outside (child process, os.system, copytree, print) is appended to      *)
(* trace in program order.                                                 *)
(*                                                                         *)
(* Environment assumptions: the child process returns an exit code in      *)
(* 0..MaxExitCode (no death by signal); a successful dotnet publish leaves *)
(* PublishNames under <output>/publish; shutil.copytree raises nothing     *)
(* (the template directory exists and no file/directory clash occurs).     *)
(***************************************************************************)
EXTENDS Integers, Sequences, FiniteSets, TLC

VARIABLES script, argv, host, pc, target, idx, current_platform,
          trace, fs, exit_code

vars == <<script, argv, host, pc, target, idx, current_platform,
          trace, fs, exit_code>>

----------------------------------------------------------------------------
(* Bounds *)

MaxArgs == 2

MaxExitCode == 2

----------------------------------------------------------------------------
(* Program constants *)

platforms == <<"win-x64", "linux-x64", "osx-x64">>

Avalonia_platforms == <<"win-x64", "linux-x64", "osx-arm64", "osx-x64">>

netver == "net8.0"

TargetFlags == {"--target", "-t", "-p", "--platform"}

UncaughtExceptionStatus == 1

----------------------------------------------------------------------------
(* Inputs *)

Words == {"--help", "--platforms", "--target", "-t", "-p", "--platform",
          "open", "all", "win-x64", "linux-x64", "osx-x64", "osx-arm64",
          "bogus"}

Hosts == {"darwin", "win32", "linux"}

ExitCodes == 0..MaxExitCode

Cwd == "C:\\Step\\StepRepl"

ArgLists == UNION {[1..n -> Words] : n \in 0..MaxArgs}

PublishNames == {"StepRepl", "Step.dll"}

TemplateNames == {"Contents/Info.plist", "Contents/MacOS/StepRepl"}

OldNames == {"Contents/MacOS/StepRepl", "Contents/MacOS/stale.txt"}

----------------------------------------------------------------------------
(* Python helpers *)

RangeOf(s) == {s[i] : i \in 1..Len(s)}

startswith(s, prefix) ==
    /\ Len(s) >= Len(prefix)
    /\ SubSeq(s, 1, Len(prefix)) = prefix

argc == Len(argv)

Arg(k) == argv[k + 1]

Ev(op, arg, code) == [op |-> op, arg |-> arg, code |-> code]

print(tr, text) == Append(tr, Ev("print", <<text>>, 0))

----------------------------------------------------------------------------
(* Paths *)

OutputDir(p) == "bin/Release/" \o netver \o "/" \o p

AppDir(p) == OutputDir(p) \o "/StepRepl.app"

PublishDir(p) == OutputDir(p) \o "/publish"

TemplateDir == "BuildAssets/StepRepl.app"

Files(f, dir) == {q \in DOMAIN f : startswith(q, dir \o "/")}

RelPath(q, dir) == SubSeq(q, Len(dir) + 1, Len(q))

(* files that exist in the destination are kept, not overwritten *)
copytree_keep_existing(f, src, dst) ==
    LET copied == {dst \o RelPath(q, src) : q \in Files(f, src)}
        from(d) == CHOOSE q \in Files(f, src) : dst \o RelPath(q, src) = d
    IN  [d \in DOMAIN f \cup copied |->
            IF d \in DOMAIN f THEN f[d] ELSE f[from(d)]]

copytree(f, src, dst) ==
    LET copied == {dst \o RelPath(q, src) : q \in Files(f, src)}
        from(d) == CHOOSE q \in Files(f, src) : dst \o RelPath(q, src) = d
    IN  [d \in DOMAIN f \cup copied |->
            IF d \in copied THEN f[from(d)] ELSE f[d]]

dotnet_publish(f, p) ==
    LET written == {PublishDir(p) \o "/" \o n : n \in PublishNames}
    IN  [d \in DOMAIN f \cup written |->
            IF d \in written THEN "publish:" \o RelPath(d, PublishDir(p) \o "/")
            ELSE f[d]]

----------------------------------------------------------------------------
(* Command lines *)

(* the runtime is not substituted: always the first platform *)
StepCommand_first(p) ==
    <<"dotnet", "publish", "StepRepl", "-r", "win-x64",
      "-p:IncludeNativeLibrariesForSelfExtract=true",
      "-p:PublishReadyToRunComposite=true", "-p:UseAppHost=true",
      "--self-contained", "true">>

StepCommand(p) ==
    <<"dotnet", "publish", "StepRepl", "-r", p,
      "-p:IncludeNativeLibrariesForSelfExtract=true",
      "-p:PublishReadyToRunComposite=true", "-p:UseAppHost=true",
      "--self-contained", "true">>

AvaloniaCommand(p) ==
    <<"dotnet", "publish", "AvaloniaRepl", "-r", p,
      "-p:PublishSingleFile=true", "--self-contained", "true">>

----------------------------------------------------------------------------
(* StepRepl/publish.py *)

(* a third branch opens the folder on every other host *)
open_output_folder_any_host(tr) ==
    IF host = "darwin"
    THEN Append(tr, Ev("system",
                       <<"open", "./" \o OutputDir(current_platform)>>, 0))
    ELSE IF host = "win32"
    THEN Append(tr, Ev("system",
                       <<"start", Cwd \o "\\" \o "bin\\Release\\" \o netver
                                  \o "\\" \o current_platform>>, 0))
    ELSE Append(tr, Ev("system",
                       <<"xdg-open", "./" \o OutputDir(current_platform)>>, 0))

open_output_folder(tr) ==
    IF host = "darwin"
    THEN Append(tr, Ev("system",
                       <<"open", "./" \o OutputDir(current_platform)>>, 0))
    ELSE IF host = "win32"
    THEN Append(tr, Ev("system",
                       <<"start", Cwd \o "\\" \o "bin\\Release\\" \o netver
                                  \o "\\" \o current_platform>>, 0))
    ELSE tr

(* the host test inverted *)
HostCanCodesign_inverted == host # "darwin"

HostCanCodesign == host = "darwin"

CodesignText == "Codesigning..."

WarningText == "WARNING! This platform can't codesign app bundles and/or change the executable bit. Macs may complain or not run the app."

BundleText == "Creating .app bundle..."

(* the bundle is made for every platform *)
BundlePlatform_any(p) == TRUE

BundlePlatform(p) == startswith(p, "osx")

create_app_bundle_trace(tr) ==
    LET t1 == print(tr, BundleText)
        t2 == Append(t1, Ev("copytree",
                            <<TemplateDir, AppDir(current_platform)>>, 0))
        t3 == Append(t2, Ev("copytree",
                            <<PublishDir(current_platform),
                              AppDir(current_platform) \o "/Contents/MacOS">>, 0))
    IN  IF HostCanCodesign
        THEN print(t3, CodesignText)
        ELSE print(t3, WarningText)

(* the second copytree left out *)
create_app_bundle_fs_template_only(f) ==
    copytree(f, TemplateDir, AppDir(current_platform))

create_app_bundle_fs(f) ==
    copytree(copytree(f, TemplateDir, AppDir(current_platform)),
             PublishDir(current_platform),
             AppDir(current_platform) \o "/Contents/MacOS")

(* the status is dropped: always exit 0 *)
Exit_zero(code) ==
    /\ pc' = "exited"
    /\ exit_code' = 0

Exit(code) ==
    /\ pc' = "exited"
    /\ exit_code' = code

(* the membership test left out *)
ValidTarget_unvalidated(t) == TRUE

ValidTarget(t) == t \in RangeOf(platforms) \/ t = "all"

main_help ==
    /\ script = "StepRepl" /\ pc = "main"
    /\ argc > 1 /\ Arg(1) = "--help"
    /\ trace' = print(trace, "Usage: python publish.py [options]")
    /\ Exit(0)
    /\ UNCHANGED <<script, argv, host, target, idx, current_platform, fs>>

main_platforms ==
    /\ script = "StepRepl" /\ pc = "main"
    /\ argc > 1 /\ Arg(1) = "--platforms"
    /\ trace' = print(print(trace, "Available platforms:")
                        \o [i \in 1..Len(platforms) |->
                               Ev("print", <<"  " \o platforms[i]>>, 0)],
                      "Use '--target <platform>' to publish")
    /\ Exit(0)
    /\ UNCHANGED <<script, argv, host, target, idx, current_platform, fs>>

main_target_missing ==
    /\ script = "StepRepl" /\ pc = "main"
    /\ argc > 1 /\ Arg(1) \in TargetFlags
    /\ argc < 3
    /\ trace' = print(trace, "Error: No target platform specified.")
    /\ Exit(1)
    /\ UNCHANGED <<script, argv, host, target, idx, current_platform, fs>>

main_target_invalid ==
    /\ script = "StepRepl" /\ pc = "main"
    /\ argc > 1 /\ Arg(1) \in TargetFlags
    /\ argc >= 3
    /\ ~ValidTarget(Arg(2))
    /\ target' = Arg(2)
    /\ trace' = print(trace, "Error: Invalid target platform '" \o Arg(2) \o "'.")
    /\ Exit(1)
    /\ UNCHANGED <<script, argv, host, idx, current_platform, fs>>

main_target_all ==
    /\ script = "StepRepl" /\ pc = "main"
    /\ argc > 1 /\ Arg(1) \in TargetFlags
    /\ argc >= 3
    /\ ValidTarget(Arg(2))
    /\ Arg(2) = "all"
    /\ target' = Arg(2)
    /\ idx' = 1
    /\ current_platform' = platforms[1]
    /\ pc' = "do_build"
    /\ UNCHANGED <<script, argv, host, trace, fs, exit_code>>

main_target_single ==
    /\ script = "StepRepl" /\ pc = "main"
    /\ argc > 1 /\ Arg(1) \in TargetFlags
    /\ argc >= 3
    /\ ValidTarget(Arg(2))
    /\ Arg(2) # "all"
    /\ target' = Arg(2)
    /\ current_platform' = Arg(2)
    /\ pc' = "do_build"
    /\ UNCHANGED <<script, argv, host, idx, trace, fs, exit_code>>

main_open ==
    /\ script = "StepRepl" /\ pc = "main"
    /\ argc > 1 /\ Arg(1) = "open"
    /\ trace' = open_output_folder(trace)
    /\ Exit(0)
    /\ UNCHANGED <<script, argv, host, target, idx, current_platform, fs>>

main_fallthrough ==
    /\ script = "StepRepl" /\ pc = "main"
    /\ \/ argc <= 1
       \/ /\ argc > 1
          /\ Arg(1) \notin {"--help", "--platforms", "open"} \cup TargetFlags
    /\ Exit(0)
    /\ UNCHANGED <<script, argv, host, target, idx, current_platform, trace, fs>>

(* the folder is opened before the child process is started *)
do_build_open_first ==
    /\ pc = "do_build"
    /\ trace' = Append(open_output_folder(
                           print(trace, "Publishing for " \o current_platform \o "...")),
                       Ev("run", StepCommand(current_platform), 0))
    /\ pc' = "subprocess"
    /\ UNCHANGED <<script, argv, host, target, idx, current_platform, fs, exit_code>>

do_build ==
    /\ pc = "do_build"
    /\ trace' = Append(print(trace, "Publishing for " \o current_platform \o "..."),
                       Ev("run", StepCommand(current_platform), 0))
    /\ pc' = "subprocess"
    /\ UNCHANGED <<script, argv, host, target, idx, current_platform, fs, exit_code>>

(* check=True left out: a non-zero exit code is not an error *)
BuildFailed_unchecked(code) == FALSE

BuildFailed(code) == code # 0

subprocess_returns ==
    /\ pc = "subprocess"
    /\ \E code \in ExitCodes :
         IF BuildFailed(code)
         THEN /\ trace' = Append(trace, Ev("returned", <<current_platform>>, code))
              /\ Exit(UncaughtExceptionStatus)
              /\ UNCHANGED fs
         ELSE /\ fs' = dotnet_publish(fs, current_platform)
              /\ trace' = print(Append(trace, Ev("returned", <<current_platform>>, code)),
                                "Publish completed for " \o current_platform \o ".")
              /\ pc' = "open_output_folder"
              /\ UNCHANGED exit_code
    /\ UNCHANGED <<script, argv, host, target, idx, current_platform>>

do_build_open ==
    /\ pc = "open_output_folder"
    /\ trace' = open_output_folder(trace)
    /\ pc' = "post"
    /\ UNCHANGED <<script, argv, host, target, idx, current_platform, fs, exit_code>>

do_build_bundle ==
    /\ pc = "post"
    /\ BundlePlatform(current_platform)
    /\ trace' = create_app_bundle_trace(trace)
    /\ fs' = create_app_bundle_fs(fs)
    /\ pc' = "loop"
    /\ UNCHANGED <<script, argv, host, target, idx, current_platform, exit_code>>

do_build_return ==
    /\ pc = "post"
    /\ ~BundlePlatform(current_platform)
    /\ pc' = "loop"
    /\ UNCHANGED <<script, argv, host, target, idx, current_platform, trace, fs, exit_code>>

loop_next ==
    /\ pc = "loop"
    /\ target = "all" /\ idx < Len(platforms)
    /\ idx' = idx + 1
    /\ current_platform' = platforms[idx + 1]
    /\ pc' = "do_build"
    /\ UNCHANGED <<script, argv, host, target, trace, fs, exit_code>>

main_target_exit ==
    /\ pc = "loop"
    /\ ~(target = "all" /\ idx < Len(platforms))
    /\ Exit(0)
    /\ UNCHANGED <<script, argv, host, target, idx, current_platform, trace, fs>>

----------------------------------------------------------------------------
(* AvaloniaRepl/publish.py *)

Avalonia_publish ==
    /\ script = "AvaloniaRepl" /\ pc = "main"
    /\ idx <= Len(Avalonia_platforms)
    /\ trace' = Append(print(trace, "Publishing for " \o Avalonia_platforms[idx] \o "..."),
                       Ev("run", AvaloniaCommand(Avalonia_platforms[idx]), 0))
    /\ pc' = "Avalonia_subprocess"
    /\ UNCHANGED <<script, argv, host, target, idx, current_platform, fs, exit_code>>

Avalonia_returns ==
    /\ pc = "Avalonia_subprocess"
    /\ \E code \in ExitCodes :
         IF BuildFailed(code)
         THEN /\ trace' = Append(trace, Ev("returned", <<Avalonia_platforms[idx]>>, code))
              /\ Exit(UncaughtExceptionStatus)
              /\ UNCHANGED idx
         ELSE /\ trace' = Append(trace, Ev("returned", <<Avalonia_platforms[idx]>>, code))
              /\ idx' = idx + 1
              /\ pc' = "main"
              /\ UNCHANGED exit_code
    /\ UNCHANGED <<script, argv, host, target, current_platform, fs>>

Avalonia_done ==
    /\ script = "AvaloniaRepl" /\ pc = "main"
    /\ idx > Len(Avalonia_platforms)
    /\ trace' = print(trace, "Publish completed for all platforms.")
    /\ Exit(0)
    /\ UNCHANGED <<script, argv, host, target, idx, current_platform, fs>>

----------------------------------------------------------------------------
(* Initial file system: the bundle template, and possibly files left in    *)
(* one platform's StepRepl.app by an earlier run.                          *)

InitialFs(tpl, oldp, old) ==
    LET tfiles == {TemplateDir \o "/" \o n : n \in tpl}
        ofiles == {AppDir(oldp) \o "/" \o n : n \in old}
    IN  [d \in tfiles \cup ofiles |->
            IF d \in tfiles
            THEN "template:" \o RelPath(d, TemplateDir \o "/")
            ELSE "old:" \o RelPath(d, AppDir(oldp) \o "/")]

Init ==
    /\ script \in {"StepRepl", "AvaloniaRepl"}
    /\ host \in Hosts
    /\ IF script = "StepRepl"
       THEN /\ argv \in {<<"publish.py">> \o a : a \in ArgLists}
            /\ \E tpl \in (SUBSET TemplateNames) \ {{}},
                  oldp \in {"linux-x64", "osx-x64"},
                  old \in SUBSET OldNames :
                  fs = InitialFs(tpl, oldp, old)
       ELSE /\ argv = <<"publish.py">>
            /\ fs = InitialFs(TemplateNames, "osx-x64", {})
    /\ pc = "main"
    /\ target = ""
    /\ idx = 1
    /\ current_platform = ""
    /\ trace = <<>>
    /\ exit_code = 0

Next ==
    \/ main_help
    \/ main_platforms
    \/ main_target_missing
    \/ main_target_invalid
    \/ main_target_all
    \/ main_target_single
    \/ main_open
    \/ main_fallthrough
    \/ do_build
    \/ subprocess_returns
    \/ do_build_open
    \/ do_build_bundle
    \/ do_build_return
    \/ loop_next
    \/ main_target_exit
    \/ Avalonia_publish
    \/ Avalonia_returns
    \/ Avalonia_done

Spec == Init /\ [][Next]_vars

----------------------------------------------------------------------------
(* Reading the trace *)

Sel(op) == SelectSeq(trace, LAMBDA e : e.op = op)

Runs == Sel("run")

Returns == Sel("returned")

Systems == Sel("system")

Copies == Sel("copytree")

Printed(text) == SelectSeq(trace, LAMBDA e : e.op = "print" /\ e.arg = <<text>>)

RuntimeArgs(cmd) == {cmd[i + 1] : i \in {j \in 1..(Len(cmd) - 1) : cmd[j] = "-r"}}

AllPlatformNames == RangeOf(platforms) \cup RangeOf(Avalonia_platforms)

IsTargetRun == script = "StepRepl" /\ argc > 1 /\ Arg(1) \in TargetFlags

ListOfRun == IF script = "StepRepl" THEN platforms ELSE Avalonia_platforms

NamesPlatform(e, p) ==
    \/ /\ e.op = "system"
       /\ \/ e.arg = <<"open", "./bin/Release/net8.0/" \o p>>
          \/ e.arg = <<"start", Cwd \o "\\bin\\Release\\net8.0\\" \o p>>
    \/ /\ e.op = "copytree"
       /\ startswith(e.arg[2], "bin/Release/net8.0/" \o p \o "/StepRepl.app")

IsStep(e) == e.op \in {"system", "copytree"} \/ (e.op = "print" /\ e.arg \in {<<WarningText>>, <<CodesignText>>, <<BundleText>>})

LastBuildEventBefore(k) ==
    LET before == {j \in 1..(k - 1) : trace[j].op \in {"run", "returned"}}
    IN  IF before = {} THEN 0 ELSE CHOOSE j \in before : \A i \in before : i <= j

----------------------------------------------------------------------------
(* C1: in a run over all platforms (StepRepl with target 'all', and every  *)
(* AvaloniaRepl run) the builds invoked so far are a prefix of the static  *)
(* platform list, in list order, each at most once; a build is invoked     *)
(* only when every earlier build has returned 0, so a non-zero exit is the *)
(* last thing the run does; and a run that ended with every build          *)
(* returning 0 has built every listed platform exactly once.               *)
C1_AllInOrderStopAtFirstFailure ==
    (script = "AvaloniaRepl" \/ (IsTargetRun /\ target = "all")) =>
        /\ Len(Runs) <= Len(ListOfRun)
        /\ \A i \in 1..Len(Runs) : RuntimeArgs(Runs[i].arg) = {ListOfRun[i]}
        /\ Len(Returns) <= Len(Runs) /\ Len(Runs) <= Len(Returns) + 1
        /\ \A i \in 1..Len(Returns) :
              /\ Returns[i].arg = <<ListOfRun[i]>>
              /\ Returns[i].code # 0 => i = Len(Runs)
        /\ \A k \in 1..Len(trace) :
              (trace[k].op = "returned" /\ trace[k].code # 0) =>
                  (k = Len(trace) /\ pc = "exited")
        /\ (pc = "exited" /\ \A i \in 1..Len(Returns) : Returns[i].code = 0) =>
              /\ Len(Runs) = Len(ListOfRun)
              /\ Len(Returns) = Len(ListOfRun)

C1_Witness ==
    /\ script = "StepRepl" /\ target = "all" /\ pc = "exited"
    /\ Len(Runs) = 2 /\ Len(Returns) = 2
    /\ Returns[1].code = 0 /\ Returns[2].code = 2

(* C2: a StepRepl run whose first argument is a target flag and whose      *)
(* target is missing or is neither a listed platform nor 'all' goes        *)
(* straight from the dispatch to exit code 1, and no child process, no     *)
(* file-manager command and no copy is ever issued; the file tree is       *)
(* never written.                                                          *)
C2_InvalidTargetExitsOneWithoutEffects ==
    (/\ IsTargetRun
     /\ \/ argc < 3
        \/ /\ argc >= 3
           /\ Arg(2) \notin {"win-x64", "linux-x64", "osx-x64", "all"}) =>
        /\ Len(Runs) = 0 /\ Len(Systems) = 0 /\ Len(Copies) = 0
        /\ \A q \in DOMAIN fs : ~startswith(q, "bin/Release/net8.0/") \/ startswith(fs[q], "old:")
        /\ \/ pc = "main"
           \/ pc = "exited" /\ exit_code = 1

C2_Witness ==
    /\ script = "StepRepl" /\ pc = "exited" /\ exit_code = 1
    /\ argc = 3 /\ Arg(1) = "-p" /\ Arg(2) = "bogus"
    /\ Len(trace) = 1

(* C3: a StepRepl run with a target flag and a listed platform p invokes   *)
(* the build once: never more than one child process, its command line     *)
(* has exactly one -r value and that value is p, and once the run is past  *)
(* do_build there is exactly one.                                          *)
C3_SingleTargetBuildsOnceForP ==
    (/\ IsTargetRun /\ argc >= 3
     /\ Arg(2) \in {"win-x64", "linux-x64", "osx-x64"}) =>
        /\ Len(Runs) <= 1
        /\ \A i \in 1..Len(Runs) :
              /\ RuntimeArgs(Runs[i].arg) = {Arg(2)}
              /\ Cardinality({j \in 1..Len(Runs[i].arg) : Runs[i].arg[j] \in AllPlatformNames}) = 1
        /\ pc \notin {"main", "do_build"} => Len(Runs) = 1

C3_Witness ==
    /\ IsTargetRun /\ argc >= 3 /\ Arg(2) = "linux-x64"
    /\ pc = "exited" /\ exit_code = 0
    /\ Len(Runs) = 1 /\ Len(Returns) = 1

----------------------------------------------------------------------------
(* C4 *)

BundleHoldsPublishOutput(p) ==
    /\ Files(fs, "bin/Release/net8.0/" \o p \o "/publish") # {}
    /\ \A q \in Files(fs, "bin/Release/net8.0/" \o p \o "/publish") :
          LET d == "bin/Release/net8.0/" \o p \o "/StepRepl.app/Contents/MacOS"
                   \o RelPath(q, "bin/Release/net8.0/" \o p \o "/publish")
          IN  d \in DOMAIN fs /\ fs[d] = fs[q]

EndedWithBuildsSucceeding ==
    /\ pc = "exited"
    /\ \A i \in 1..Len(Returns) : Returns[i].code = 0

(* C4 as stated: '--target osx-arm64' on a non-macOS host, the build not    *)
(* failing, ends with the bundle for osx-arm64 holding the publish output  *)
(* and the code-signing warning printed.                                   *)
C4_Original ==
    (/\ IsTargetRun /\ argc >= 3 /\ Arg(2) = "osx-arm64"
     /\ host # "darwin"
     /\ EndedWithBuildsSucceeding) =>
        /\ BundleHoldsPublishOutput("osx-arm64")
        /\ Len(Printed(WarningText)) = 1

(* C4 amended: the same with '--target osx-x64', the one macOS platform    *)
(* the StepRepl list has: the run ends with exit code 0, the bundle for    *)
(* osx-x64 holds every file of the publish output and the warning has      *)
(* been printed.                                                           *)
C4_Amended ==
    (/\ IsTargetRun /\ argc >= 3 /\ Arg(2) = "osx-x64"
     /\ host # "darwin"
     /\ EndedWithBuildsSucceeding) =>
        /\ exit_code = 0
        /\ BundleHoldsPublishOutput("osx-x64")
        /\ Len(Printed(WarningText)) = 1

C4_Witness ==
    /\ IsTargetRun /\ argc >= 3 /\ Arg(1) = "--target" /\ Arg(2) = "osx-x64"
    /\ host = "linux"
    /\ pc = "exited" /\ exit_code = 0
    /\ "bin/Release/net8.0/osx-x64/StepRepl.app/Contents/MacOS/Step.dll" \in DOMAIN fs
    /\ Len(Printed(WarningText)) = 1

----------------------------------------------------------------------------
(* C5 *)

ValidTargetRun ==
    /\ IsTargetRun /\ argc >= 3
    /\ Arg(2) \in {"win-x64", "linux-x64", "osx-x64", "all"}

----------------------------------------------------------------------------
(* C6: in a StepRepl run every folder-open command, bundle copy and bundle *)
(* message names the platform whose build is the latest build event before *)
(* it, and that event is the build's return with code 0 (so the step comes *)
(* after the successful build of its own platform and before the next      *)
(* build starts); while a child process runs nothing else is issued; and   *)
(* a build returning non-zero is the last event of the run, so neither     *)
(* folder-open nor bundle creation follows it.                             *)
C6_StepsGatedOnBuildSuccess ==
    IsTargetRun =>
        /\ \A k \in 1..Len(trace) :
              IsStep(trace[k]) =>
                  LET b == LastBuildEventBefore(k)
                  IN  /\ b > 0
                      /\ trace[b].op = "returned"
                      /\ trace[b].code = 0
                      /\ trace[k].op \in {"system", "copytree"} =>
                            NamesPlatform(trace[k], trace[b].arg[1])
        /\ \A k \in 1..Len(trace) :
              (trace[k].op = "returned" /\ trace[k].code # 0) => k = Len(trace)
        /\ pc = "subprocess" => trace[Len(trace)].op = "run"
        /\ \A k \in 2..Len(trace) :
              trace[k].op = "returned" => trace[k - 1].op = "run"

C6_Witness ==
    /\ IsTargetRun /\ target = "all" /\ host = "darwin"
    /\ pc = "exited" /\ exit_code = 0
    /\ Len(Runs) = 3 /\ Len(Systems) = 3 /\ Len(Copies) = 2

(* C7: once a macOS target has been post-processed, the trace holds one    *)
(* copy of the template into the platform's StepRepl.app followed by one   *)
(* copy of the publish directory into its Contents/MacOS, whatever the     *)
(* host; on a host other than darwin the warning has been printed exactly  *)
(* once and no code-signing step (message or command) has been issued; on  *)
(* darwin the warning has not been printed.                                *)
C7_NonMacHostCopiesAndWarnsOnce ==
    (script = "StepRepl" /\ pc = "loop" /\ startswith(current_platform, "osx")) =>
        /\ Copies = << Ev("copytree", <<"BuildAssets/StepRepl.app",
                                        "bin/Release/net8.0/" \o current_platform
                                            \o "/StepRepl.app">>, 0),
                       Ev("copytree", <<"bin/Release/net8.0/" \o current_platform
                                            \o "/publish",
                                        "bin/Release/net8.0/" \o current_platform
                                            \o "/StepRepl.app/Contents/MacOS">>, 0) >>
        /\ host # "darwin" =>
              /\ Len(Printed(WarningText)) = 1
              /\ Len(Printed(CodesignText)) = 0
              /\ \A i \in 1..Len(Systems) : Systems[i].arg[1] \in {"open", "start"}
        /\ host = "darwin" => Len(Printed(WarningText)) = 0

C7_Witness ==
    /\ script = "StepRepl" /\ pc = "loop" /\ current_platform = "osx-x64"
    /\ host = "win32"
    /\ Len(Copies) = 2
    /\ Len(Printed(WarningText)) = 1

(* C8: the step that post-processes a macOS target p leaves every template *)
(* file under p's StepRepl.app and every publish file under its            *)
(* Contents/MacOS with the publish content; a template file keeps the      *)
(* template content unless a publish file landed on the same path; and     *)
(* every file that was there before and is the destination of neither      *)
(* copy is still there with its content.                                   *)
C8_BundleContents ==
    [][ (pc = "post" /\ pc' = "loop" /\ startswith(current_platform, "osx")) =>
          LET app == "bin/Release/net8.0/" \o current_platform \o "/StepRepl.app"
              pub == "bin/Release/net8.0/" \o current_platform \o "/publish"
              tpl == "BuildAssets/StepRepl.app"
              pubDst == {app \o "/Contents/MacOS" \o RelPath(q, pub) : q \in Files(fs, pub)}
              tplDst == {app \o RelPath(q, tpl) : q \in Files(fs, tpl)}
          IN  /\ Files(fs, pub) # {} /\ Files(fs, tpl) # {}
              /\ \A q \in Files(fs, pub) :
                    /\ app \o "/Contents/MacOS" \o RelPath(q, pub) \in DOMAIN fs'
                    /\ fs'[app \o "/Contents/MacOS" \o RelPath(q, pub)] = fs[q]
              /\ \A q \in Files(fs, tpl) :
                    /\ app \o RelPath(q, tpl) \in DOMAIN fs'
                    /\ app \o RelPath(q, tpl) \notin pubDst =>
                          fs'[app \o RelPath(q, tpl)] = fs[q]
              /\ \A d \in DOMAIN fs :
                    /\ d \in DOMAIN fs'
                    /\ d \notin (pubDst \cup tplDst) => fs'[d] = fs[d]
              /\ DOMAIN fs' = DOMAIN fs \cup pubDst \cup tplDst
      ]_vars

C8_Witness ==
    /\ script = "StepRepl" /\ pc = "loop" /\ current_platform = "osx-x64"
    /\ "BuildAssets/StepRepl.app/Contents/MacOS/StepRepl" \in DOMAIN fs
    /\ "bin/Release/net8.0/osx-x64/StepRepl.app/Contents/MacOS/stale.txt" \in DOMAIN fs
    /\ fs["bin/Release/net8.0/osx-x64/StepRepl.app/Contents/MacOS/stale.txt"] = "old:Contents/MacOS/stale.txt"
    /\ fs["bin/Release/net8.0/osx-x64/StepRepl.app/Contents/MacOS/StepRepl"] = "publish:StepRepl"
    /\ fs["bin/Release/net8.0/osx-x64/StepRepl.app/Contents/Info.plist"] = "template:Contents/Info.plist"

----------------------------------------------------------------------------
(* C9 *)

NoBundleEventFor(p) ==
    \A k \in 1..Len(trace) : trace[k].op = "copytree" => ~NamesPlatform(trace[k], p)

(* C9 as stated: when a non-macOS target has been post-processed, no copy   *)
(* into its StepRepl.app has been issued and the unavailable-code-signing  *)
(* warning has been emitted.                                               *)
C9_Original ==
    (script = "StepRepl" /\ pc = "loop" /\ ~startswith(current_platform, "osx")) =>
        /\ NoBundleEventFor(current_platform)
        /\ Len(Printed(WarningText)) >= 1

(* C9 amended: the steps that follow the build of a non-macOS target       *)
(* (folder-open and the bundle test) leave the whole file tree as the      *)
(* build left it, issue no copy and print nothing: no warning is emitted   *)
(* on this path.                                                           *)
C9_Amended ==
    [][ (/\ script = "StepRepl"
         /\ pc \in {"open_output_folder", "post"}
         /\ ~startswith(current_platform, "osx")) =>
          /\ fs' = fs
          /\ Len(trace') <= Len(trace) + 1
          /\ \A k \in (Len(trace) + 1)..Len(trace') : trace'[k].op = "system"
          /\ pc' = "loop" =>
                /\ NoBundleEventFor(current_platform)
                /\ Len(Printed(WarningText)) = 0
      ]_vars

C9_Witness ==
    /\ script = "StepRepl" /\ pc = "loop" /\ current_platform = "linux-x64"
    /\ host = "linux"
    /\ "bin/Release/net8.0/linux-x64/StepRepl.app/Contents/MacOS/stale.txt" \in DOMAIN fs
    /\ "bin/Release/net8.0/linux-x64/publish/StepRepl" \in DOMAIN fs
    /\ Len(Printed(WarningText)) = 0

----------------------------------------------------------------------------
(* C10: a StepRepl run issues a build only when its first argument is a    *)
(* target flag followed by a listed platform or 'all'; a run without a     *)
(* target flag (no argument, --help, --platforms, open, anything else)     *)
(* goes from the dispatch straight to exit code 0 with no child process    *)
(* and no copy; only 'open' on darwin or win32 issues a file-manager       *)
(* command, exactly one, for the empty platform context.                   *)
C10_NoBuildWithoutTarget ==
    script = "StepRepl" =>
        /\ Len(Runs) > 0 =>
              /\ argc >= 3
              /\ Arg(1) \in {"--target", "-t", "-p", "--platform"}
              /\ Arg(2) \in {"win-x64", "linux-x64", "osx-x64", "all"}
        /\ ~(argc > 1 /\ Arg(1) \in {"--target", "-t", "-p", "--platform"}) =>
              /\ Len(Runs) = 0 /\ Len(Copies) = 0
              /\ pc = "main" \/ (pc = "exited" /\ exit_code = 0)
              /\ Len(Systems) <= 1
              /\ Len(Systems) = 1 <=>
                    /\ pc = "exited" /\ argc > 1 /\ Arg(1) = "open"
                    /\ host \in {"darwin", "win32"}
              /\ \A i \in 1..Len(Systems) : NamesPlatform(Systems[i], "")

C10_Witness ==
    /\ script = "StepRepl" /\ pc = "exited" /\ exit_code = 0
    /\ argc = 2 /\ Arg(1) = "open" /\ host = "darwin"
    /\ Systems = <<Ev("system", <<"open", "./bin/Release/net8.0/">>, 0)>>

====
